---- MODULE Spec2Model ----
(***************************************************************************)
(* Model of src/src/ScreenCapture.ts: the key-tagged screen-capture guard  *)
(* (preventScreenCaptureAsync / allowScreenCaptureAsync), the React hook   *)
(* usePreventScreenCapture built on it, and the native module the guard    *)
(* forwards to.                                                            *)
(*                                                                         *)
(* JavaScript runs the synchronous prefix of an async function (up to its  *)
(* first await) without interruption, so the membership test, the set      *)
(* mutation and the issuing of the native call are one step; the native    *)
(* call then completes later, and the awaiting function resumes later      *)
(* still.  Every call ever started is kept in `calls` (in start order), so *)
(* that the claims about sequences of calls can be stated.                 *)
(***************************************************************************)
EXTENDS Integers, Sequences, FiniteSets, TLC

\* ---- bounds ----
MaxCalls == 3          \* number of guard calls started in one behaviour
NumComps == 2          \* number of components using the hook
MaxSubs == 3           \* number of listener registrations in one behaviour
MaxEvents == 2         \* number of native screenshot events in one behaviour

DefaultKey == "default"
Keys  == {DefaultKey, "a"}
Comps == 1..NumComps
Direct == 0            \* `by` of a call made directly, not by a hook instance

VARIABLES
  activeTags,   \* const activeTags: Set<string>
  calls,        \* every guard call started so far, in start order
  nativeQueue,  \* ids of the calls whose native call is in flight, in issue order
  engaged,      \* native state: TRUE after a completed engage, FALSE after a completed release
  comp,         \* per component: the useEffect instance of usePreventScreenCapture
  subs,         \* the emitter's subscriptions, in registration order
  nextSub,      \* id of the next Subscription handle the emitter hands out
  registered,   \* <<id, listener>> added by addScreenshotListener and not removed since, in order
  deliveries    \* per native screenshot event so far: the <<id, listener>> invoked, in order

guardVars == <<activeTags, calls, nativeQueue, engaged, comp>>

relayVars == <<subs, nextSub, registered, deliveries>>

vars == <<activeTags, calls, nativeQueue, engaged, comp, subs, nextSub, registered, deliveries>>

CallIds == DOMAIN calls

\* The guard state the synchronous part of a call reads and writes.
Guard == [tags |-> activeTags, calls |-> calls, queue |-> nativeQueue]

NewCall(op, key, by, native) ==
  [op |-> op, key |-> key, by |-> by, native |-> native,
   st |-> IF native THEN "awaiting" ELSE "resolved"]

\* Variant: the test is on the size of the set, not on the key.
PreventIssuesNative_WhenEmpty(tags, key) == tags = {}

\* Variant: the membership test is dropped.
PreventIssuesNative_Always(tags, key) == TRUE

\* if (!activeTags.has(key))
PreventIssuesNative(tags, key) == key \notin tags

\* Variant: the key is not inserted before the function suspends.
PreventTags_NotBeforeAwait(tags, key) == tags

\* Variant: a key is recorded only when no key is active yet.
PreventTags_OnlyWhenEmpty(tags, key) == IF tags = {} THEN {key} ELSE tags

\* activeTags.add(key), done only inside the if
PreventTags(tags, key) == IF PreventIssuesNative(tags, key) THEN tags \cup {key} ELSE tags

\* Variant: activeTags.clear() instead of activeTags.delete(key).
AllowTags_Clear(tags, key) == {}

\* activeTags.delete(key)
AllowTags(tags, key) == tags \ {key}

\* Variant: the size test is off by one (size <= 1).
AllowIssuesNative_AtMostOne(tagsAfter) == Cardinality(tagsAfter) <= 1

\* Variant: the size test is dropped.
AllowIssuesNative_Always(tagsAfter) == TRUE

\* if (activeTags.size === 0), evaluated after the delete
AllowIssuesNative(tagsAfter) == Cardinality(tagsAfter) = 0

\* Synchronous part of one guard call: the set mutation, and the native
\* call issued (appended to the native module's queue) when the code says so.
CallStep(s, op, key, by, tags, native) ==
  [tags  |-> tags,
   calls |-> Append(s.calls, NewCall(op, key, by, native)),
   queue |-> IF native THEN Append(s.queue, Len(s.calls) + 1) ELSE s.queue]

preventScreenCaptureAsync(s, key, by) ==
  CallStep(s, "prevent", key, by, PreventTags(s.tags, key), PreventIssuesNative(s.tags, key))

\* Variant: the size test is made before the delete.
allowScreenCaptureAsync_SizeBeforeDelete(s, key, by) ==
  CallStep(s, "allow", key, by, AllowTags(s.tags, key), AllowIssuesNative(s.tags))

allowScreenCaptureAsync(s, key, by) ==
  CallStep(s, "allow", key, by, AllowTags(s.tags, key), AllowIssuesNative(AllowTags(s.tags, key)))

Apply(s) ==
  /\ activeTags'  = s.tags
  /\ calls'       = s.calls
  /\ nativeQueue' = s.queue

Unmounted == [mounted |-> FALSE, key |-> DefaultKey, eff |-> 0]

Init ==
  /\ activeTags  = {}
  /\ calls       = <<>>
  /\ nativeQueue = <<>>
  /\ engaged     = FALSE
  /\ comp        = [c \in Comps |-> Unmounted]
  /\ subs        = <<>>
  /\ nextSub     = 1
  /\ registered  = <<>>
  /\ deliveries  = <<>>

\* ---- direct callers ----
Prevent(key) ==
  /\ Len(calls) < MaxCalls
  /\ Apply(preventScreenCaptureAsync(Guard, key, Direct))
  /\ UNCHANGED <<engaged, comp, relayVars>>

Allow(key) ==
  /\ Len(calls) < MaxCalls
  /\ Apply(allowScreenCaptureAsync(Guard, key, Direct))
  /\ UNCHANGED <<engaged, comp, relayVars>>

\* ---- usePreventScreenCapture ----
\* The effect body: preventScreenCaptureAsync(key), promise dropped.
Effect(s, c, key) == preventScreenCaptureAsync(s, key, c)

\* Variant: the cleanup calls allowScreenCaptureAsync() without the key.
Cleanup_DefaultKey(s, c) == allowScreenCaptureAsync(s, DefaultKey, c)

\* The cleanup returned by the effect; it closes over the key of the render
\* that created it, which is the key kept in comp[c].key.
Cleanup(s, c) == allowScreenCaptureAsync(s, comp[c].key, c)

\* First render of component c with `key`: the effect runs.
Mount(c, key) ==
  /\ ~comp[c].mounted
  /\ Len(calls) < MaxCalls
  /\ Apply(Effect(Guard, c, key))
  /\ comp' = [comp EXCEPT ![c] = [mounted |-> TRUE, key |-> key, eff |-> Len(calls) + 1]]
  /\ UNCHANGED <<engaged, relayVars>>

\* Re-render with a key that differs from the dependency list [key] of the
\* previous render: the previous cleanup runs, then the effect runs again.
ChangeKey(c, key) ==
  /\ comp[c].mounted
  /\ key # comp[c].key
  /\ Len(calls) + 2 <= MaxCalls
  /\ Apply(Effect(Cleanup(Guard, c), c, key))
  /\ comp' = [comp EXCEPT ![c] = [mounted |-> TRUE, key |-> key, eff |-> Len(calls) + 2]]
  /\ UNCHANGED <<engaged, relayVars>>

\* Unmount: the cleanup runs.
Unmount(c) ==
  /\ comp[c].mounted
  /\ Len(calls) < MaxCalls
  /\ Apply(Cleanup(Guard, c))
  /\ comp' = [comp EXCEPT ![c] = Unmounted]
  /\ UNCHANGED <<engaged, relayVars>>

\* ---- native module ----
\* The native module serves its calls in the order they were issued; a call
\* either succeeds, taking effect, or fails, leaving the native state alone.
NativeDone(ok) ==
  /\ nativeQueue # <<>>
  /\ LET i == Head(nativeQueue) IN
       /\ engaged' = IF ok THEN (calls[i].op = "prevent") ELSE engaged
       /\ calls'   = [calls EXCEPT ![i].st = IF ok THEN "settledOk" ELSE "settledFail"]
  /\ nativeQueue' = Tail(nativeQueue)
  /\ UNCHANGED <<activeTags, comp, relayVars>>

\* ---- continuations after the await ----
\* Variant: the await sits in a try/catch that swallows the native failure.
Settle_Swallow(i) ==
  [calls EXCEPT ![i].st = "resolved"]

\* await ExpoScreenCapture.preventScreenCapture(): nothing follows the await,
\* and there is no try/catch, so the function's promise settles as the native
\* promise did.
Settle(i) ==
  [calls EXCEPT ![i].st = IF calls[i].st = "settledOk" THEN "resolved" ELSE "rejected"]

\* Variant: a catch block that takes the key back out before rethrowing.
PreventResume_Rollback(i) ==
  /\ calls[i].op = "prevent"
  /\ calls[i].st \in {"settledOk", "settledFail"}
  /\ calls' = Settle(i)
  /\ activeTags' = IF calls[i].st = "settledFail" THEN activeTags \ {calls[i].key} ELSE activeTags
  /\ UNCHANGED <<nativeQueue, engaged, comp, relayVars>>

PreventResume(i) ==
  /\ calls[i].op = "prevent"
  /\ calls[i].st \in {"settledOk", "settledFail"}
  /\ calls' = Settle(i)
  /\ UNCHANGED <<activeTags, nativeQueue, engaged, comp, relayVars>>

\* Variant: a failed native release call is issued again.
AllowResume_Retry(i) ==
  /\ calls[i].op = "allow"
  /\ calls[i].st \in {"settledOk", "settledFail"}
  /\ IF calls[i].st = "settledFail"
       THEN /\ calls' = [calls EXCEPT ![i].st = "awaiting"]
            /\ nativeQueue' = Append(nativeQueue, i)
       ELSE /\ calls' = Settle(i)
            /\ nativeQueue' = nativeQueue
  /\ UNCHANGED <<activeTags, engaged, comp, relayVars>>

AllowResume(i) ==
  /\ calls[i].op = "allow"
  /\ calls[i].st \in {"settledOk", "settledFail"}
  /\ calls' = Settle(i)
  /\ UNCHANGED <<activeTags, nativeQueue, engaged, comp, relayVars>>

Next ==
  \/ \E key \in Keys : Prevent(key)
  \/ \E key \in Keys : Allow(key)
  \/ \E c \in Comps, key \in Keys : Mount(c, key)
  \/ \E c \in Comps, key \in Keys : ChangeKey(c, key)
  \/ \E c \in Comps : Unmount(c)
  \/ \E ok \in BOOLEAN : NativeDone(ok)
  \/ \E i \in CallIds : PreventResume(i)
  \/ \E i \in CallIds : AllowResume(i)

Spec == Init /\ [][Next]_vars

\* ---- calls made one after another by direct callers ----
\* No call is in flight: every call started has settled.
Quiescent == \A i \in CallIds : calls[i].st \in {"resolved", "rejected"}

SeqPrevent(key) == Quiescent /\ Prevent(key)

SeqAllow(key) == Quiescent /\ Allow(key)

SeqNext ==
  \/ \E key \in Keys : SeqPrevent(key)
  \/ \E key \in Keys : SeqAllow(key)
  \/ \E ok \in BOOLEAN : NativeDone(ok)
  \/ \E i \in CallIds : PreventResume(i)
  \/ \E i \in CallIds : AllowResume(i)

SeqSpec == Init /\ [][SeqNext]_vars

TypeOK ==
  /\ activeTags \subseteq Keys
  /\ Len(calls) <= MaxCalls
  /\ engaged \in BOOLEAN


\* ---- event relay ----
Listeners == {"f", "g"}

\* const onScreenshotEventName = 'onScreenshot'
onScreenshotEventName == "onScreenshot"

\* The name under which the native module emits its one event.
NativeEventName == "onScreenshot"

\* emitter.addListener(eventName, listener): the subscription goes to the end
\* of the emitter's list and its handle is returned.
EmitterAddListener(list, id, eventName, listener) ==
  Append(list, [id |-> id, eventName |-> eventName, listener |-> listener])

\* emitter.removeSubscription(subscription): the subscription of that handle
\* leaves the list; a handle that is no longer in it changes nothing.
EmitterRemoveSubscription(list, id) ==
  SelectSeq(list, LAMBDA s : s.id # id)

\* The emitter delivers an event to the subscriptions made under its name,
\* each once, in registration order.
EmitterDeliver(list, eventName) ==
  LET hit == SelectSeq(list, LAMBDA s : s.eventName = eventName)
  IN  [n \in DOMAIN hit |-> <<hit[n].id, hit[n].listener>>]

\* Variant: the listener is registered under a misspelt event name.
addScreenshotListener_OtherEvent(list, id, listener) ==
  EmitterAddListener(list, id, "onScreenShot", listener)

\* return emitter.addListener<void>(onScreenshotEventName, listener)
addScreenshotListener(list, id, listener) ==
  EmitterAddListener(list, id, onScreenshotEventName, listener)

\* emitter.removeSubscription(subscription)
removeScreenshotListener(list, id) ==
  EmitterRemoveSubscription(list, id)

\* A caller registers `listener` and keeps the returned handle nextSub.
AddListener(listener) ==
  /\ nextSub <= MaxSubs
  /\ subs' = addScreenshotListener(subs, nextSub, listener)
  /\ nextSub' = nextSub + 1
  /\ registered' = Append(registered, <<nextSub, listener>>)
  /\ UNCHANGED <<deliveries, guardVars>>

\* A caller hands back a handle it was given, possibly one already removed.
RemoveListener(id) ==
  /\ id \in 1..(nextSub - 1)
  /\ subs' = removeScreenshotListener(subs, id)
  /\ registered' = SelectSeq(registered, LAMBDA r : r[1] # id)
  /\ UNCHANGED <<nextSub, deliveries, guardVars>>

\* The native layer signals a screenshot; the emitter invokes the listeners.
Screenshot ==
  /\ Len(deliveries) < MaxEvents
  /\ deliveries' = Append(deliveries, EmitterDeliver(subs, NativeEventName))
  /\ UNCHANGED <<subs, nextSub, registered, guardVars>>

RelayNext ==
  \/ \E listener \in Listeners : AddListener(listener)
  \/ \E id \in 1..MaxSubs : RemoveListener(id)
  \/ Screenshot

RelaySpec == Init /\ [][RelayNext]_vars

\* ---- what a step did, read off the call history ----
\* Ids of the calls started by the step.
NewIds == (Len(calls) + 1)..Len(calls')

\* The step issued a native preventScreenCapture() call.
EngageIssued == \E i \in NewIds : calls'[i].op = "prevent" /\ calls'[i].native

\* The step issued a native allowScreenCapture() call.
ReleaseIssued == \E i \in NewIds : calls'[i].op = "allow" /\ calls'[i].native

\* The step is exactly one call op(key), by anyone.
Started(op, key) ==
  /\ Len(calls') = Len(calls) + 1
  /\ calls'[Len(calls')].op = op
  /\ calls'[Len(calls')].key = key

EngageCount == Cardinality({i \in CallIds : calls[i].op = "prevent" /\ calls[i].native})

ReleaseCount == Cardinality({i \in CallIds : calls[i].op = "allow" /\ calls[i].native})

\* No allow(key) was started after call i.
NoAllowSince(i, key) ==
  \A j \in CallIds : j > i => ~(calls[j].op = "allow" /\ calls[j].key = key)

\* Ids of the calls that issued a native call.
NativeIds == {i \in CallIds : calls[i].native}

LastNativeId == CHOOSE i \in NativeIds : \A j \in NativeIds : j <= i

\* The most recently issued native call, if there is one, completed successfully.
LastNativeSucceeded ==
  NativeIds # {} => calls[LastNativeId].st \in {"settledOk", "resolved"}

\* ---- C1 ----
\* C1: with calls made one after another from an empty set, a native engage
\* call is issued by a step if and only if that step takes the Active-Key Set
\* from empty to non-empty.
C1_EngageOnlyOnEmptyToNonEmpty ==
  [][EngageIssued <=> (activeTags = {} /\ activeTags' # {})]_vars

\* ---- C2 ----
\* C2: with calls made one after another from an empty set, a native release
\* call is issued by a step if and only if that step takes the Active-Key Set
\* from non-empty to empty.
C2_ReleaseOnlyOnNonEmptyToEmpty ==
  [][ReleaseIssued <=> (activeTags # {} /\ activeTags' = {})]_vars

C4_PreventOfActiveKeyIsNoOp ==
  /\ [][\A key \in Keys :
          (Started("prevent", key) /\ key \in activeTags) =>
             /\ activeTags' = activeTags
             /\ nativeQueue' = nativeQueue
             /\ ~EngageIssued /\ ~ReleaseIssued]_vars
  /\ [](\A key \in Keys :
          (/\ Len(calls) = 2
           /\ \A i \in {1, 2} : calls[i].op = "prevent" /\ calls[i].key = key)
          => (EngageCount = 1 /\ ReleaseCount = 0 /\ activeTags = {key}))

\* prevent(k); prevent(k) has run from the empty set, the second call having
\* returned without a native call.
C4_Witness ==
  /\ Len(calls) = 2
  /\ calls[1].op = "prevent" /\ calls[2].op = "prevent"
  /\ calls[1].key = calls[2].key
  /\ calls[1].native /\ ~calls[2].native /\ calls[2].st = "resolved"

\* ---- C5 ----
\* C5: allow(key) removes exactly key from the Active-Key Set; when another
\* key remains after the removal no native release call is issued; and every
\* native release call was issued only after allow had been called, later
\* than the prevent, with every key passed to an earlier prevent.
C5_AllowRemovesOnlyItsKey ==
  /\ [][\A key \in Keys :
          Started("allow", key) =>
             /\ activeTags' = activeTags \ {key}
             /\ (activeTags' # {} => (~ReleaseIssued /\ nativeQueue' = nativeQueue))]_vars
  /\ [](\A i \in CallIds :
          (calls[i].op = "allow" /\ calls[i].native) =>
             \A j \in 1..(i - 1) :
                calls[j].op = "prevent" =>
                   \E m \in (j + 1)..i :
                      calls[m].op = "allow" /\ calls[m].key = calls[j].key)

\* prevent with two different keys, then allow with the first: the other key
\* is still active and no native release call was issued.
C5_Witness ==
  /\ Len(calls) = 3
  /\ calls[1].op = "prevent" /\ calls[2].op = "prevent" /\ calls[3].op = "allow"
  /\ calls[1].key # calls[2].key
  /\ calls[3].key = calls[1].key
  /\ activeTags = {calls[2].key}
  /\ ReleaseCount = 0

\* ---- C6 ----
\* C6: allow(key) with key not in the Active-Key Set leaves the set unchanged
\* and issues no native call, also when the set is empty.
C6_AllowOfInactiveKeyIsNoOp ==
  [][\A key \in Keys :
       (Started("allow", key) /\ key \notin activeTags) =>
          /\ activeTags' = activeTags
          /\ nativeQueue' = nativeQueue
          /\ ~ReleaseIssued]_vars

\* ---- C7 ----
\* C7: when the native engage call of prevent(key) fails, the call's promise
\* is rejected, the rejection leaves the Active-Key Set as it is, and key is
\* still in the set afterwards for as long as no allow(key) has been started
\* since the call.
C7_FailedEngageRejectsAndKeepsKey ==
  /\ [][\A i \in CallIds :
          (calls[i].op = "prevent" /\ calls[i].st = "settledFail"
             /\ calls'[i].st # "settledFail") =>
             (calls'[i].st = "rejected" /\ activeTags' = activeTags)]_vars
  /\ [](\A i \in CallIds :
          (calls[i].op = "prevent" /\ calls[i].st = "rejected"
             /\ NoAllowSince(i, calls[i].key)) =>
             calls[i].key \in activeTags)

\* A prevent call was rejected after its native engage call failed; its key
\* is active although prevention is not engaged.
C7_Witness ==
  \E i \in CallIds :
     /\ calls[i].op = "prevent" /\ calls[i].native /\ calls[i].st = "rejected"
     /\ NoAllowSince(i, calls[i].key)
     /\ calls[i].key \in activeTags
     /\ ~engaged

\* The most recent call naming key exists and is a prevent.
LastCallIsPrevent(key) ==
  \E i \in CallIds :
     /\ calls[i].key = key /\ calls[i].op = "prevent"
     /\ \A j \in CallIds : (j > i) => calls[j].key # key

\* ---- C8 ----
\* C8: under every interleaving and whatever the native outcomes, a key is in
\* the Active-Key Set if and only if the most recent call naming it was a
\* prevent; and only a step that starts a prevent or allow call changes the set.
C8_MembershipIsLastCall ==
  /\ [](\A key \in Keys : key \in activeTags <=> LastCallIsPrevent(key))
  /\ [][activeTags' # activeTags => Len(calls') > Len(calls)]_vars

\* Calls overlap, a native call has failed, one key is active after a later
\* prevent and another key is inactive after an allow.
C8_Witness ==
  /\ \E i \in CallIds : calls[i].st \in {"settledFail", "rejected"}
  /\ \E i \in CallIds : calls[i].st = "awaiting"
  /\ \E i, j \in CallIds :
        /\ i < j /\ calls[i].key # calls[j].key
        /\ calls[i].op = "prevent" /\ calls[j].op = "allow"
        /\ calls[j].key \notin activeTags
        /\ calls[i].key \in activeTags

\* The calls started by the step, as <<op, key, by>>, in order.
NewCalls ==
  [n \in 1..(Len(calls') - Len(calls)) |->
     <<calls'[Len(calls) + n].op, calls'[Len(calls) + n].key, calls'[Len(calls) + n].by>>]

\* ---- C9 ----
\* C9: a step that mounts component c with key makes exactly the guard call
\* prevent(key); a step that unmounts it makes exactly allow(key); a step that
\* changes its key from oldKey to newKey makes exactly allow(oldKey) followed
\* by prevent(newKey); no other step makes a guard call on behalf of c.
C9_HookCallsFollowLifecycle ==
  [][\A c \in Comps :
       LET old == comp[c]
           new == comp'[c]
       IN  /\ (~old.mounted /\ new.mounted) =>
                 NewCalls = << <<"prevent", new.key, c>> >>
           /\ (old.mounted /\ ~new.mounted) =>
                 NewCalls = << <<"allow", old.key, c>> >>
           /\ (old.mounted /\ new.mounted /\ old.key # new.key) =>
                 NewCalls = << <<"allow", old.key, c>>, <<"prevent", new.key, c>> >>
           /\ (old.mounted = new.mounted /\ old.key = new.key) =>
                 \A i \in NewIds : calls'[i].by # c]_vars

\* A component was mounted with one key, changed to another key (allow of the
\* old key directly followed by prevent of the new one) and is still mounted.
C9_Witness ==
  \E c \in Comps :
     /\ Len(calls) = 3
     /\ \A i \in 1..3 : calls[i].by = c
     /\ calls[1].op = "prevent" /\ calls[2].op = "allow" /\ calls[3].op = "prevent"
     /\ calls[1].key = calls[2].key /\ calls[3].key # calls[2].key
     /\ comp[c].mounted /\ comp[c].key = calls[3].key

\* The native engage call issued by c's latest effect run has completed
\* successfully.
EffectEngageCompleted(c) ==
  /\ comp[c].eff \in CallIds
  /\ calls[comp[c].eff].native
  /\ calls[comp[c].eff].st \in {"settledOk", "resolved"}

\* ---- C10 ----
\* C10 as stated: with the guard used through the hook only, while component
\* c stays mounted and its mount-time native engage call has completed, no
\* step made by another component using the hook (mounting, unmounting or
\* changing key, with any key) issues a native release call.
C10_NoReleaseWhileMounted ==
  [][\A c \in Comps :
       (/\ comp[c].mounted /\ comp'[c].mounted
        /\ EffectEngageCompleted(c)
        /\ \A i \in CallIds : calls[i].by # Direct
        /\ \E i \in NewIds : calls'[i].by \notin {c, Direct}) =>
          ~ReleaseIssued]_vars

\* C10 amended: while component c stays mounted with key k, no native release
\* call is issued from its mount until the first allow(k) call; allow(k) is
\* called only by c's own unmount or key change, by another hook instance
\* that uses the same key k, or by a direct caller passing k, so components
\* using a different key never cause a release while c is mounted.
C10_NoReleaseUntilAllowOfOwnKey ==
  [][\A c \in Comps :
       (/\ comp[c].mounted /\ comp'[c] = comp[c]
        /\ \A j \in (comp[c].eff + 1)..Len(calls') :
              ~(calls'[j].op = "allow" /\ calls'[j].key = comp[c].key)) =>
          ~ReleaseIssued]_vars

\* Component c is mounted and its mount-time engage call has completed;
\* another component has since mounted and unmounted with a different key,
\* and no native release call was issued.
C10_Witness ==
  \E c, d \in Comps :
     /\ c # d
     /\ comp[c].mounted /\ EffectEngageCompleted(c) /\ engaged
     /\ ~comp[d].mounted
     /\ \E i, j \in CallIds :
           /\ comp[c].eff < i /\ i < j
           /\ calls[i].by = d /\ calls[i].op = "prevent"
           /\ calls[j].by = d /\ calls[j].op = "allow"
           /\ calls[j].key # comp[c].key
     /\ ReleaseCount = 0

\* ---- C11 ----
\* C11: users of the guard with distinct keys do not conflict: a step that
\* calls allow(key), directly or by a hook instance unmounting or changing
\* key, while some other key is held in the Active-Key Set issues no native
\* release call and leaves the other keys held; a native release call is
\* issued only by the call after which no key is held.
C11_DistinctKeysDoNotConflict ==
  [][/\ \A i \in NewIds :
          (calls'[i].op = "allow" /\ (activeTags \ {calls'[i].key}) # {}) =>
             /\ ~calls'[i].native
             /\ (activeTags \ {calls'[i].key}) \subseteq activeTags'
     /\ ReleaseIssued => \E i \in NewIds : calls'[i].op = "allow" /\ activeTags \subseteq {calls'[i].key}]_vars

\* A hook instance and a direct caller hold different keys; the hook instance
\* has unmounted, which issued no native release call and left the direct
\* caller's key held.
C11_Witness ==
  \E c \in Comps :
     /\ Len(calls) = 3
     /\ calls[1].by = c /\ calls[1].op = "prevent"
     /\ calls[2].by = Direct /\ calls[2].op = "prevent" /\ calls[2].key # calls[1].key
     /\ calls[3].by = c /\ calls[3].op = "allow" /\ ~calls[3].native
     /\ ~comp[c].mounted
     /\ activeTags = {calls[2].key}
     /\ ReleaseCount = 0

\* A prevent call whose native engage call is still in flight.
EngageInFlight == \E i \in CallIds : calls[i].op = "prevent" /\ calls[i].st = "awaiting"

\* ---- C13 ----
\* C13 as stated: a prevent call that starts while an earlier prevent call's
\* native engage call is still in flight, and that issues a native engage
\* call of its own, observed the Active-Key Set as empty.
C13_SecondEngageObservesEmptySet ==
  [][\A key \in Keys :
       (Started("prevent", key) /\ EngageInFlight /\ EngageIssued) =>
          activeTags = {}]_vars

\* C13 amended: a prevent(key) call that starts while an earlier prevent
\* call's native engage call is still in flight issues a native engage call
\* of its own if and only if key is not yet in the Active-Key Set; the set it
\* observes is not empty when the earlier key is still held, so two prevent
\* calls with different keys give two native engage calls for one
\* empty-to-non-empty transition, and two with the same key give one.
C13_SecondEngageIffKeyAbsent ==
  /\ [][\A key \in Keys :
          (Started("prevent", key) /\ EngageInFlight) =>
             (EngageIssued <=> key \notin activeTags)]_vars
  /\ []((Len(calls) >= 2 /\ calls[1].op = "prevent" /\ calls[2].op = "prevent") =>
          ((calls[1].native /\ calls[2].native) <=> calls[1].key # calls[2].key))

\* Two prevent calls with different keys overlap on an initially empty set:
\* both native engage calls are in flight, for one empty-to-non-empty
\* transition.
C13_Witness ==
  /\ Len(calls) = 2
  /\ calls[1].op = "prevent" /\ calls[2].op = "prevent"
  /\ calls[1].st = "awaiting" /\ calls[2].st = "awaiting"
  /\ nativeQueue = <<1, 2>>
  /\ EngageCount = 2
  /\ Cardinality(activeTags) = 2

\* An earlier prevent(key) call precedes call j with no allow(key) started
\* between the two.
PrecededByPrevent(j, key) ==
  \E i \in 1..(j - 1) :
     /\ calls[i].op = "prevent" /\ calls[i].key = key
     /\ \A m \in (i + 1)..(j - 1) : ~(calls[m].op = "allow" /\ calls[m].key = key)

\* ---- C14 ----
\* C14: under every interleaving at await points, among prevent(key) calls
\* with the same key and no allow(key) between them exactly one, the first,
\* issues a native engage call: a prevent(key) call issues a native engage
\* call if and only if no earlier prevent(key) precedes it without an
\* allow(key) in between, whether or not that earlier call has settled.
C14_OneEngagePerKeyRun ==
  \A j \in CallIds :
     calls[j].op = "prevent" =>
        (calls[j].native <=> ~PrecededByPrevent(j, calls[j].key))

\* Three prevent calls with the same key overlap: the first is still awaiting
\* its native engage call, the two others issued none.
C14_Witness ==
  /\ Len(calls) = 3
  /\ \A i \in 1..3 : calls[i].op = "prevent" /\ calls[i].key = calls[1].key
  /\ calls[1].st = "awaiting"
  /\ EngageCount = 1

\* The promise of call i is resolved by the step: the call was started and
\* returned at once, or it resumed after its await.
BecomesResolved(i) ==
  /\ calls'[i].st = "resolved"
  /\ (i \in CallIds => calls[i].st # "resolved")

\* No allow call, with any key, has been started after call i, the step included.
NoAllowStartedAfter(i) == \A j \in DOMAIN calls' : j > i => calls'[j].op # "allow"

\* ---- C15 ----
\* C15 as stated: whenever the promise of a prevent(key) call is resolved and
\* no allow call has been started since that call, prevention is engaged at
\* that moment, also for a call that overlaps an earlier prevent(key).
C15_ResolvedMeansEngaged ==
  [][\A i \in DOMAIN calls' :
       (calls'[i].op = "prevent" /\ BecomesResolved(i) /\ NoAllowStartedAfter(i)) =>
          engaged']_vars

\* C15 amended: whenever the promise of a prevent(key) call that itself issued
\* the native engage call is resolved and no allow call has been started
\* since that call, its native engage call has completed successfully and
\* prevention is engaged at that moment. (A prevent(key) call that finds key
\* already active issues no native call and resolves at once, whether the
\* earlier call's native engage call is in flight, succeeds or fails.)
C15_OwnEngageResolvedMeansEngaged ==
  [][\A i \in DOMAIN calls' :
       (/\ calls'[i].op = "prevent" /\ calls'[i].native
        /\ BecomesResolved(i) /\ NoAllowStartedAfter(i)) =>
          (i \in CallIds /\ calls[i].st = "settledOk" /\ engaged')]_vars

\* A prevent call that issued the native engage call has resolved with
\* prevention engaged, while an overlapping prevent call with another key
\* has had its native engage call fail; no allow call was made.
C15_Witness ==
  /\ \A i \in CallIds : calls[i].op = "prevent"
  /\ \E i, j \in CallIds :
        /\ i # j
        /\ calls[i].native /\ calls[i].st = "resolved"
        /\ calls[j].native /\ calls[j].st \in {"settledFail", "rejected"}
  /\ engaged

\* ---- C16 ----
\* C16: under every interleaving, if no native call has been issued the
\* Active-Key Set is empty, otherwise the most recently issued native call is
\* an engage call if and only if the set is non-empty; and the native calls
\* in flight are queued in the order of the calls whose set mutation
\* triggered them.
C16_LastNativeCallMatchesSet ==
  /\ NativeIds = {} => activeTags = {}
  /\ NativeIds # {} => (calls[LastNativeId].op = "prevent" <=> activeTags # {})
  /\ \A p, q \in DOMAIN nativeQueue : p < q => nativeQueue[p] < nativeQueue[q]

\* An allow call overlaps a prevent call: the engage and the release are both
\* in flight, in that order, and the set is empty again.
C16_Witness ==
  /\ Len(nativeQueue) = 2
  /\ calls[nativeQueue[1]].op = "prevent"
  /\ calls[nativeQueue[2]].op = "allow"
  /\ LastNativeId = nativeQueue[2]
  /\ activeTags = {}

\* ---- C17 ----
\* C17: once a prevent(key) call has been rejected because its native engage
\* call failed, every prevent(key) call started later with no allow(key) in
\* between issues no native engage call and resolves at once, so the failed
\* engage is not retried.
C17_FailedEngageIsNotRetried ==
  [][\A n \in NewIds :
       (/\ calls'[n].op = "prevent"
        /\ \E i \in CallIds :
              /\ calls[i].op = "prevent" /\ calls[i].key = calls'[n].key
              /\ calls[i].native /\ calls[i].st = "rejected"
              /\ \A m \in (i + 1)..(n - 1) :
                    ~(calls'[m].op = "allow" /\ calls'[m].key = calls'[n].key)) =>
          /\ ~calls'[n].native
          /\ calls'[n].st = "resolved"
          /\ n \notin {nativeQueue'[p] : p \in DOMAIN nativeQueue'}]_vars

\* prevent(k) was rejected after its native engage call failed; a second
\* prevent(k) has resolved without a native call, and prevention is not engaged.
C17_Witness ==
  /\ Len(calls) = 2
  /\ calls[1].op = "prevent" /\ calls[1].native /\ calls[1].st = "rejected"
  /\ calls[2].op = "prevent" /\ calls[2].key = calls[1].key
  /\ ~calls[2].native /\ calls[2].st = "resolved"
  /\ EngageCount = 1
  /\ ~engaged

\* No prevent(key) was started after call i.
NoPreventSince(i, key) ==
  \A j \in CallIds : j > i => ~(calls[j].op = "prevent" /\ calls[j].key = key)

\* ---- C18 ----
\* C18: when the native release call of allow(key) fails, the call's promise
\* is rejected, the step issues no further native call and leaves the
\* Active-Key Set alone; a call never has a native call in flight once its
\* native call has completed, nor two at a time; and key is out of the set
\* for as long as no prevent(key) has been started since the call.
C18_FailedReleaseRejectsWithoutRetry ==
  /\ [][\A i \in CallIds :
          (calls[i].op = "allow" /\ calls[i].st = "settledFail"
             /\ calls'[i].st # "settledFail") =>
             /\ calls'[i].st = "rejected"
             /\ nativeQueue' = nativeQueue
             /\ activeTags' = activeTags]_vars
  /\ [](/\ \A p \in DOMAIN nativeQueue : calls[nativeQueue[p]].st = "awaiting"
        /\ \A p, q \in DOMAIN nativeQueue : nativeQueue[p] = nativeQueue[q] => p = q
        /\ \A i \in CallIds :
              (calls[i].op = "allow" /\ calls[i].st = "rejected"
                 /\ NoPreventSince(i, calls[i].key)) =>
                 calls[i].key \notin activeTags)

\* After a successful prevent(k), allow(k) was rejected because its native
\* release call failed: k is out of the set, nothing is in flight, and
\* prevention is still engaged.
C18_Witness ==
  \E i \in CallIds :
     /\ calls[i].op = "allow" /\ calls[i].native /\ calls[i].st = "rejected"
     /\ NoPreventSince(i, calls[i].key)
     /\ calls[i].key \notin activeTags
     /\ nativeQueue = <<>>
     /\ engaged

\* ---- C12 ----
\* C12: at every native screenshot event the listeners invoked are exactly
\* those added by addScreenshotListener and not removed since by
\* removeScreenshotListener, each once, in registration order; so a removed
\* listener is never invoked again while the others still are; and no
\* listener is invoked except at an event.
C12_ListenersInvokedWhileRegistered ==
  [][/\ Len(deliveries') = Len(deliveries) + 1 =>
          deliveries'[Len(deliveries')] = registered
     /\ Len(deliveries') # Len(deliveries) + 1 => deliveries' = deliveries]_vars

\* Two listeners received a first event in registration order; the first was
\* then removed, and a second event reached only the other one.
C12_Witness ==
  /\ Len(deliveries) = 2
  /\ Len(deliveries[1]) = 2
  /\ deliveries[1][1][1] < deliveries[1][2][1]
  /\ deliveries[2] = << deliveries[1][2] >>
  /\ registered = << deliveries[1][2] >>

====
